---- MODULE Spec2Model ----
(***************************************************************************)
(* Model of the retrieval core of ReguChatAI: VectorStore                  *)
(* (src/vector_store.py), the object that get_components (src/app.py)      *)
(* caches once per process and hands to every Streamlit session thread.    *)
(*                                                                         *)
(* Numbers.  A vector is a tuple of integers.  A unit vector is held in    *)
(* fixed point with 10 for 1.0, so an inner product of two unit vectors    *)
(* is a score with 100 for 1.0 (a threshold of 0.7 is 70).  Positions are  *)
(* 0-based as in the code; position p of a list is element p + 1 of the    *)
(* sequence that models it.                                                *)
(***************************************************************************)
EXTENDS Integers, Sequences, FiniteSets, TLC

VARIABLES
    index,           \* self.index: the rows of the FAISS IndexFlatIP, in insertion order
    documents,       \* self.documents: the chunk records, in insertion order
    document_count,  \* self.document_count
    pc,              \* pc[t]: where session thread t stands in its current call
    loc,             \* loc[t]: the arguments and local variables of that call
    calls,           \* calls begun, counted where the specification bounds them
    documents_loaded, \* documents_loaded[t]: st.session_state.documents_loaded of session t
    run              \* run[t]: the button handler that session t's script run is in

store == <<index, documents, document_count>>
session == <<documents_loaded, run>>
vars == <<index, documents, document_count, pc, loc, calls, documents_loaded, run>>

(***************************************************************************)
(* Bounds of the model.                                                    *)
(***************************************************************************)
NumThreads == 2   \* session threads sharing the cached store
MaxBatch == 2     \* longest list passed to add_documents
MaxDocs == 3      \* a call to add_documents begins only while the batch fits in this
MaxK == 2         \* largest k passed to similarity_search
MaxCalls == 3     \* calls begun in a behaviour of interleaved sessions

Threads == 1..NumThreads

\* VectorStore.__init__: the index dimension (1536 in the code, 2 here).
embedding_dimension == 2

(***************************************************************************)
(* Inputs.                                                                 *)
(***************************************************************************)
\* doc.metadata of a Document whose metadata is not a dict (it has no copy()).
NoMetadata == [not_a_dict |-> TRUE]

Chunks ==
    { [page_content |-> "a", metadata |-> [source |-> "docA"]],
      [page_content |-> "b", metadata |-> [source |-> "docB"]],
      [page_content |-> "c", metadata |-> NoMetadata] }

GoodChunks == { c \in Chunks : "not_a_dict" \notin DOMAIN c.metadata }

SeqsUpTo(S, n) == UNION { [1..m -> S] : m \in 0..n }

Batches == SeqsUpTo(Chunks, MaxBatch)
GoodBatches == SeqsUpTo(GoodChunks, MaxBatch)

Queries == {"", "a"}
Ks == 0..MaxK
Thresholds == {60, 70}

\* What the embedding service does with one request.
\*   none:   one vector per text, in order
\*   error:  the request raises
\*   short:  the last vector is missing
\*   long:   one vector too many
\*   zero:   the first vector is all zeros
\*   baddim: every vector has one component only
Faults == {"none", "error", "short", "long", "zero", "baddim"}

(***************************************************************************)
(* Vectors.                                                                *)
(***************************************************************************)
Min(a, b) == IF a <= b THEN a ELSE b

RECURSIVE SumTo(_, _)
SumTo(f, n) == IF n = 0 THEN 0 ELSE f[n] + SumTo(f, n - 1)

Dot(u, v) == SumTo([i \in 1..Len(u) |-> u[i] * v[i]], Len(u))

NormSq(v) == Dot(v, v)

ISqrt(n) == CHOOSE r \in 0..n : r * r <= n /\ n < (r + 1) * (r + 1)

\* faiss.normalize_L2 on one row: a row of norm 0 is left as it is.
normalize_L2_row(v) ==
    LET nr == NormSq(v)
    IN  IF nr > 0 THEN [i \in 1..Len(v) |-> (v[i] * 10) \div ISqrt(nr)] ELSE v

\* The embedding service as a function of the text (a deterministic service).
Embed(text) ==
    CASE text = "a" -> <<3, 4>>
      [] text = "b" -> <<0, 2>>
      [] text = "c" -> <<-4, -3>>
      [] OTHER      -> <<8, 6>>

ExtraVector == <<2, 0>>
ZeroVector == <<0, 0>>

\* response.data for a request of `texts` under `fault` (not "error"). Each row
\* carries, beside its vector, the text it was computed for ("none" for a row
\* no text asked for): that field is not in the code, it records provenance.
ResponseData(texts, fault) ==
    LET n == Len(texts)
        base == [j \in 1..n |-> [vec |-> Embed(texts[j]), text |-> texts[j]]]
    IN  CASE fault = "short"  -> SubSeq(base, 1, n - 1)
          [] fault = "long"   -> Append(base, [vec |-> ExtraVector, text |-> "none"])
          [] fault = "zero"   -> [base EXCEPT ![1].vec = ZeroVector]
          [] fault = "baddim" -> [j \in 1..n |-> [base[j] EXCEPT !.vec = <<base[j].vec[1]>>]]
          [] OTHER            -> base

\* An exception in place of an array.
Raised == [raised |-> TRUE, rows |-> <<>>]
Array(rows) == [raised |-> FALSE, rows |-> rows]

\* VectorStore._get_embeddings: the array of the response's vectors, or Raised.
get_embeddings(texts, fault) ==
    IF fault = "error" THEN Raised ELSE Array(ResponseData(texts, fault))

\* faiss.normalize_L2(x) on the array: x.shape[1] raises on the 1-d array that
\* np.array makes of an empty list.
normalize_L2(x) ==
    IF Len(x) = 0 THEN Raised
    ELSE Array([j \in 1..Len(x) |-> [x[j] EXCEPT !.vec = normalize_L2_row(x[j].vec)]])

\* The assertion of faiss's add and search: d == self.d.
DimOk(x) == \A j \in 1..Len(x) : Len(x[j].vec) = embedding_dimension

(***************************************************************************)
(* Threads.                                                                *)
(***************************************************************************)
\* Between calls. `last` is the operation of the thread's previous call: it is
\* not in the code.
Idle == [op |-> "none", last |-> "none"]

\* A session whose script run is in neither handler.
NoRun == [mode |-> "none", left |-> 0]

Init ==
    /\ index = <<>>
    /\ documents = <<>>
    /\ document_count = 0
    /\ pc = [t \in Threads |-> "idle"]
    /\ loc = [t \in Threads |-> Idle]
    /\ calls = 0
    /\ documents_loaded = [t \in Threads |-> FALSE]
    /\ run = [t \in Threads |-> NoRun]

Snapshot == [index |-> index, documents |-> documents, document_count |-> document_count]

Return(t, status) ==
    /\ pc' = [pc EXCEPT ![t] = "returned"]
    /\ loc' = [loc EXCEPT ![t] = [loc[t] EXCEPT !.status = status]]

Goto(t, label) == pc' = [pc EXCEPT ![t] = label]

\* A call begins: within the budget of calls where `counted`.
Begin(counted) ==
    /\ IF counted THEN calls < MaxCalls /\ calls' = calls + 1 ELSE UNCHANGED calls
    /\ UNCHANGED session

(***************************************************************************)
(* VectorStore.add_documents                                               *)
(***************************************************************************)
\* Lines 62-73: the empty-list return, the texts, the embedding request and the
\* normalisation. None of it reads or writes the store. Beside the arguments and
\* the locals of the code, loc[t] keeps for the properties: the service's fault,
\* whether the service was called (embedded), the store as the call found it
\* (pre) and how the call ended (status).
add_documents(t, docs, fault, counted) ==
    /\ pc[t] = "idle"
    /\ Begin(counted)
    /\ Len(documents) + Len(docs) <= MaxDocs
    /\ Len(index) + Len(docs) <= MaxDocs
    /\ document_count + Len(docs) <= MaxDocs
    /\ LET texts == [i \in 1..Len(docs) |-> docs[i].page_content]
           got == get_embeddings(texts, fault)
           emb == IF got.raised THEN Raised ELSE normalize_L2(got.rows)
           call == [op |-> "add", docs |-> docs, fault |-> fault, status |-> "running",
                    embedded |-> docs # <<>>, pre |-> Snapshot,
                    embeddings |-> IF docs = <<>> THEN <<>> ELSE emb.rows, i |-> 0, count |-> 0]
       IN  /\ loc' = [loc EXCEPT ![t] =
                        [call EXCEPT !.status =
                            IF docs = <<>> THEN "ok"
                            ELSE IF emb.raised THEN "error" ELSE "running"]]
           /\ pc' = [pc EXCEPT ![t] =
                        IF docs = <<>> \/ emb.raised THEN "returned" ELSE "add_index"]
    /\ UNCHANGED store

\* Line 76: self.index.add(embeddings).
add_documents_index_add(t) ==
    /\ pc[t] = "add_index"
    /\ UNCHANGED <<calls, session>>
    /\ IF DimOk(loc[t].embeddings)
       THEN /\ index' = index \o loc[t].embeddings
            /\ Goto(t, "add_loop")
            /\ UNCHANGED loc
       ELSE /\ Return(t, "error")
            /\ UNCHANGED index
    /\ UNCHANGED <<documents, document_count>>

\* Line 80: doc.metadata.copy() raises when the metadata is no dict.
Copyable(metadata) == "not_a_dict" \notin DOMAIN metadata

\* Lines 80-85: the record stored for element i of the batch.
doc_metadata(doc, i) ==
    [content |-> doc.page_content,
     doc_id |-> document_count + i,
     vector_index |-> Len(documents) + i] @@ doc.metadata

\* Lines 79-86: one iteration of the loop, or leaving it.
add_documents_loop(t) ==
    /\ pc[t] = "add_loop"
    /\ UNCHANGED <<calls, session>>
    /\ LET i == loc[t].i
           docs == loc[t].docs
       IN  IF i < Len(docs)
           THEN IF Copyable(docs[i + 1].metadata)
                THEN /\ documents' = Append(documents, doc_metadata(docs[i + 1], i))
                     /\ loc' = [loc EXCEPT ![t].i = i + 1]
                     /\ UNCHANGED pc
                ELSE /\ Return(t, "error")
                     /\ UNCHANGED documents
           ELSE /\ loc' = [loc EXCEPT ![t].count = document_count]
                /\ Goto(t, "add_count")
                /\ UNCHANGED documents
    /\ UNCHANGED <<index, document_count>>

\* Line 88: self.document_count += len(documents), the store of the sum of the
\* value read (on leaving the loop) and the batch length.
add_documents_count(t) ==
    /\ pc[t] = "add_count"
    /\ UNCHANGED <<calls, session>>
    /\ document_count' = loc[t].count + Len(loc[t].docs)
    /\ Return(t, "ok")
    /\ UNCHANGED <<index, documents>>

(***************************************************************************)
(* VectorStore.similarity_search                                           *)
(***************************************************************************)
Range(f) == { f[x] : x \in DOMAIN f }

\* index.search(x, kk) of an IndexFlatIP for one query row: every list of kk
\* distinct positions in order of non-increasing inner product that leaves no
\* better row out. FAISS fixes no order among rows of equal score.
index_search(rows, q, kk) ==
    LET n == Len(rows)
        sc == [p \in 0..(n - 1) |-> Dot(rows[p + 1].vec, q)]
        best == { s \in [1..kk -> 0..(n - 1)] :
                    /\ \A i, j \in 1..kk : i < j => s[i] # s[j] /\ sc[s[i]] >= sc[s[j]]
                    /\ \A p \in 0..(n - 1) : p \notin Range(s) => sc[p] <= sc[s[kk]] }
    IN  { [i \in 1..kk |-> [score |-> sc[s[i]], idx |-> s[i]]] : s \in best }

\* The threshold as an exclusive bound.
MeetsThresholdStrict(score, score_threshold) == score > score_threshold

\* Line 118, the threshold half of the test.
MeetsThreshold(score, score_threshold) == score >= score_threshold

\* The test of line 105 left out: no index counts as empty.
ntotal_is_zero_unchecked(ix) == FALSE

\* Line 105: self.index.ntotal == 0.
ntotal_is_zero(ix) == Len(ix) = 0

\* Lines 105-111: the empty-index return, the embedding request for the query
\* and its normalisation.
similarity_search(t, query, k, score_threshold, fault, counted) ==
    /\ pc[t] = "idle"
    /\ Begin(counted)
    /\ LET empty == ntotal_is_zero(index)
           got == get_embeddings(<<query>>, fault)
           emb == IF got.raised THEN Raised ELSE normalize_L2(got.rows)
           call == [op |-> "search", query |-> query, k |-> k,
                    score_threshold |-> score_threshold, fault |-> fault, pre |-> Snapshot,
                    status |-> IF empty THEN "ok" ELSE IF emb.raised THEN "error" ELSE "running",
                    embedded |-> ~empty,
                    query_embedding |-> IF empty THEN <<>> ELSE emb.rows,
                    scores_indices |-> <<>>, j |-> 0, joined |-> <<>>, results |-> <<>>]
       IN  /\ loc' = [loc EXCEPT ![t] = call]
           /\ pc' = [pc EXCEPT ![t] =
                        IF empty \/ emb.raised THEN "returned" ELSE "search_index"]
    /\ UNCHANGED store

\* Line 114: self.index.search(query_embedding, min(k, self.index.ntotal)).
\* faiss asserts d == self.d and k > 0.
similarity_search_index_search(t) ==
    /\ pc[t] = "search_index"
    /\ UNCHANGED <<calls, session>>
    /\ LET x == loc[t].query_embedding
           kk == Min(loc[t].k, Len(index))
       IN  IF DimOk(x) /\ kk > 0
           THEN \E found \in index_search(index, x[1].vec, kk) :
                    /\ loc' = [loc EXCEPT ![t].scores_indices = found]
                    /\ Goto(t, "search_loop")
           ELSE Return(t, "error")
    /\ UNCHANGED store

\* The result put in front of the list.
results_prepend(results, doc) == <<doc>> \o results

\* Line 121: results.append(doc_metadata).
results_append(results, doc) == Append(results, doc)

\* Which dict a name is bound to: a stored one, by its position in
\* self.documents, or one that is not in the list.
NewDict == -1

\* self.documents[idx] itself.
stored_dict(idx) == idx

\* Line 119: self.documents[idx].copy(), a new dict of the same fields.
dict_copy(idx) == NewDict

\* d[key] = value on a dict that may be a stored one: the list after it.
setitem(docs, dict, new) ==
    IF dict = NewDict THEN docs ELSE [docs EXCEPT ![dict + 1] = new @@ @]

\* Lines 117-123: one iteration of the loop over zip(scores[0], indices[0]); the
\* return follows the last one. documents[idx] raises IndexError past the end
\* of the list. `joined` lists the positions read: it is not in the code.
similarity_search_loop(t) ==
    /\ pc[t] = "search_loop"
    /\ UNCHANGED <<calls, session>>
    /\ LET c == loc[t].scores_indices[loc[t].j + 1]
           last == loc[t].j + 1 = Len(loc[t].scores_indices)
           next == [loc[t] EXCEPT !.j = @ + 1, !.status = IF last THEN "ok" ELSE @]
       IN  IF c.idx >= 0 /\ MeetsThreshold(c.score, loc[t].score_threshold)
           THEN IF c.idx < Len(documents)
                THEN /\ loc' = [loc EXCEPT ![t] =
                            [next EXCEPT
                                !.results = results_append(@, [score |-> c.score] @@ documents[c.idx + 1]),
                                !.joined = Append(@, c.idx)]]
                     /\ pc' = [pc EXCEPT ![t] = IF last THEN "returned" ELSE @]
                     /\ documents' = setitem(documents, dict_copy(c.idx), [score |-> c.score])
                ELSE /\ Return(t, "error")
                     /\ UNCHANGED documents
           ELSE /\ loc' = [loc EXCEPT ![t] = next]
                /\ pc' = [pc EXCEPT ![t] = IF last THEN "returned" ELSE @]
                /\ UNCHANGED documents
    /\ UNCHANGED <<index, document_count>>

\* The caller of a search that returned results assigns a field of one of
\* them: result['content'] = "x". The results are then in the caller's hands.
result_setitem(t, i) ==
    /\ pc[t] = "returned"
    /\ loc[t].op = "search"
    /\ i \in 1..Len(loc[t].results)
    /\ UNCHANGED <<calls, session>>
    /\ loc' = [loc EXCEPT ![t].results[i] = [content |-> "x"] @@ @]
    /\ documents' = setitem(documents, dict_copy(loc[t].joined[i]), [content |-> "x"])
    /\ Goto(t, "caller")
    /\ UNCHANGED <<index, document_count>>

(***************************************************************************)
(* VectorStore.clear                                                       *)
(***************************************************************************)
\* Line 145. `again` tells that the thread's previous call was a clear too.
clear(t, counted) ==
    /\ pc[t] = "idle"
    /\ Begin(counted)
    /\ index' = <<>>
    /\ loc' = [loc EXCEPT ![t] = [op |-> "clear", status |-> "running", pre |-> Snapshot,
                                  again |-> loc[t].last = "clear"]]
    /\ Goto(t, "clear_documents")
    /\ UNCHANGED <<documents, document_count>>

\* Line 146 left out: the chunk list stays.
clear_documents_skipped(t) ==
    /\ pc[t] = "clear_documents"
    /\ UNCHANGED <<calls, session>>
    /\ Goto(t, "clear_count")
    /\ UNCHANGED <<index, documents, document_count, loc>>

\* Line 146.
clear_documents(t) ==
    /\ pc[t] = "clear_documents"
    /\ UNCHANGED <<calls, session>>
    /\ documents' = <<>>
    /\ Goto(t, "clear_count")
    /\ UNCHANGED <<index, document_count, loc>>

\* Line 147.
clear_document_count(t) ==
    /\ pc[t] = "clear_count"
    /\ UNCHANGED <<calls, session>>
    /\ document_count' = 0
    /\ Return(t, "ok")
    /\ UNCHANGED <<index, documents>>

(***************************************************************************)
(* VectorStore.get_statistics                                              *)
(***************************************************************************)
\* Lines 130-132: doc.get('source', 'Unknown') of every stored record.
unique_sources(docs) ==
    { IF "source" \in DOMAIN docs[p] THEN docs[p].source ELSE "Unknown" : p \in 1..Len(docs) }

\* Lines 134-140, of the store s.
get_statistics(s) ==
    [total_documents |-> Cardinality(unique_sources(s.documents)),
     total_chunks |-> Len(s.documents),
     index_size |-> Len(s.index),
     embedding_dimension |-> embedding_dimension,
     sources |-> unique_sources(s.documents)]

(***************************************************************************)
(* VectorStore.get_document_by_source                                      *)
(***************************************************************************)
\* The names asked for: docC is the source of no chunk.
Sources == {"docA", "docB", "docC"}

\* doc.get('source'): None for a record without the field.
doc_get_source(doc) == IF "source" \in DOMAIN doc THEN doc.source ELSE "None"

\* The test of line 151 inverted.
source_differs(doc, source) == doc_get_source(doc) # source

\* Line 151, the condition: doc.get('source') == source.
source_matches(doc, source) == doc_get_source(doc) = source

\* Line 151: the list comprehension over self.documents.
get_document_by_source(t, source, counted) ==
    /\ pc[t] = "idle"
    /\ Begin(counted)
    /\ loc' = [loc EXCEPT ![t] =
                [op |-> "by_source", source |-> source, status |-> "ok", pre |-> Snapshot,
                 result |-> SelectSeq(documents, LAMBDA doc : source_matches(doc, source))]]
    /\ Goto(t, "returned")
    /\ UNCHANGED store

\* The caller takes the result; the thread is free for its next call.
Finish(t) ==
    /\ pc[t] \in {"returned", "caller"}
    /\ UNCHANGED <<calls, session>>
    /\ pc' = [pc EXCEPT ![t] = "idle"]
    /\ loc' = [loc EXCEPT ![t] = [Idle EXCEPT !.last = loc[t].op]]
    /\ UNCHANGED store

(***************************************************************************)
(* Specifications.                                                         *)
(***************************************************************************)
Step(t, B, F, Q, K, T, counted) ==
    \/ \E docs \in B, fault \in F : add_documents(t, docs, fault, counted)
    \/ add_documents_index_add(t)
    \/ add_documents_loop(t)
    \/ add_documents_count(t)
    \/ \E query \in Q, k \in K, thr \in T, fault \in F :
            similarity_search(t, query, k, thr, fault, counted)
    \/ similarity_search_index_search(t)
    \/ similarity_search_loop(t)
    \/ \E i \in 1..MaxK : result_setitem(t, i)
    \/ \E source \in Sources : get_document_by_source(t, source, counted)
    \/ clear(t, counted)
    \/ clear_documents(t)
    \/ clear_document_count(t)
    \/ Finish(t)

\* One session: calls never overlap. Documents with metadata, every query, k
\* and threshold, every service fault.
SeqNext == Step(1, GoodBatches, Faults, Queries, Ks, Thresholds, FALSE)
SeqSpec == Init /\ [][SeqNext]_vars

\* One session, and documents of any shape: add_documents takes whatever has a
\* page_content and a metadata attribute.
AnyNext == Step(1, Batches, Faults, Queries, Ks, Thresholds, FALSE)
AnySpec == Init /\ [][AnyNext]_vars

\* All sessions, their calls interleaved, MaxCalls calls in all; documents with
\* metadata, a service that answers every request in full, one query, k and
\* threshold.
Next == \E t \in Threads : Step(t, GoodBatches, {"none"}, {"a"}, {MaxK}, {70}, TRUE)
Spec == Init /\ [][Next]_vars

(***************************************************************************)
(* The app: the sidebar's two buttons, per session, on the store that       *)
(* get_components caches for all sessions.                                 *)
(***************************************************************************)
MaxFiles == 2

\* What process_document returns for a file it can read: one chunk or more, all
\* of the file's name as source.
FileChunks ==
    { b \in GoodBatches :
        /\ b # <<>>
        /\ \A i, j \in 1..Len(b) : b[i].metadata.source = b[j].metadata.source }

\* No other session is inside a button handler. The handlers of different
\* sessions are taken one after another here; how calls on the store interleave
\* is the matter of Spec.
Alone(t) == \A u \in Threads \ {t} : run[u].mode = "none"

\* Lines 62-67: "Process Documents" pressed with n files uploaded.
process_documents_click(t, n) ==
    /\ run[t].mode = "none"
    /\ Alone(t)
    /\ pc[t] = "idle"
    /\ run' = [run EXCEPT ![t] = [mode |-> "process", left |-> n]]
    /\ UNCHANGED <<store, pc, loc, calls, documents_loaded>>

\* Lines 75, 86-87: process_document raises (unsupported type, no text); the
\* except clause reports it and the loop goes on.
process_document_raises(t) ==
    /\ run[t].mode = "process"
    /\ run[t].left > 0
    /\ pc[t] = "idle"
    /\ run' = [run EXCEPT ![t].left = @ - 1]
    /\ UNCHANGED <<store, pc, loc, calls, documents_loaded>>

\* Lines 75-78: process_document returns chunks and add_documents is called
\* with them; the embedding service answers or fails.
process_file(t) ==
    /\ run[t].mode = "process"
    /\ run[t].left > 0
    /\ \E docs \in FileChunks, fault \in {"none", "error"} :
            add_documents(t, docs, fault, FALSE)

\* Lines 81-87: add_documents has returned or raised (caught and reported);
\* on to the next file.
file_done(t) ==
    /\ run[t].mode = "process"
    /\ pc[t] = "returned"
    /\ pc' = [pc EXCEPT ![t] = "idle"]
    /\ loc' = [loc EXCEPT ![t] = [Idle EXCEPT !.last = loc[t].op]]
    /\ run' = [run EXCEPT ![t].left = @ - 1]
    /\ UNCHANGED <<store, calls, documents_loaded>>

\* Lines 89-90, after the loop and outside its try.
process_documents_done(t) ==
    /\ run[t].mode = "process"
    /\ run[t].left = 0
    /\ pc[t] = "idle"
    /\ documents_loaded' = [documents_loaded EXCEPT ![t] = TRUE]
    /\ run' = [run EXCEPT ![t] = NoRun]
    /\ UNCHANGED <<store, pc, loc, calls>>

\* Lines 93, 99: "Clear All Documents" is drawn for a session whose flag is
\* set, and pressed.
clear_all_click(t) ==
    /\ run[t].mode = "none"
    /\ Alone(t)
    /\ pc[t] = "idle"
    /\ documents_loaded[t]
    /\ run' = [run EXCEPT ![t] = [mode |-> "clear", left |-> 0]]
    /\ UNCHANGED <<store, pc, loc, calls, documents_loaded>>

\* Line 100: vector_store.clear().
clear_all_clear(t) ==
    /\ run[t].mode = "clear"
    /\ clear(t, FALSE)

\* Lines 101-104: the flag reset (and the chat history, which is not modelled).
clear_all_done(t) ==
    /\ run[t].mode = "clear"
    /\ pc[t] = "returned"
    /\ documents_loaded' = [documents_loaded EXCEPT ![t] = FALSE]
    /\ run' = [run EXCEPT ![t] = NoRun]
    /\ pc' = [pc EXCEPT ![t] = "idle"]
    /\ loc' = [loc EXCEPT ![t] = [Idle EXCEPT !.last = loc[t].op]]
    /\ UNCHANGED <<store, calls>>

\* All sessions, one button handler at a time.
AppNext ==
    \E t \in Threads :
        \/ \E n \in 1..MaxFiles : process_documents_click(t, n)
        \/ process_document_raises(t)
        \/ process_file(t)
        \/ add_documents_index_add(t)
        \/ add_documents_loop(t)
        \/ add_documents_count(t)
        \/ file_done(t)
        \/ process_documents_done(t)
        \/ clear_all_click(t)
        \/ clear_all_clear(t)
        \/ clear_documents(t)
        \/ clear_document_count(t)
        \/ clear_all_done(t)
AppSpec == Init /\ [][AppNext]_vars

(***************************************************************************)
(* Properties.                                                             *)
(***************************************************************************)
Quiet == \A t \in Threads : pc[t] \in {"idle", "returned"}

Returned(t, op) == pc[t] = "returned" /\ loc[t].op = op

\* A store as a sequence of complete, well-answered calls leaves it.
Consistent(s) ==
    /\ Len(s.index) = Len(s.documents)
    /\ s.document_count = Len(s.documents)

\* C1. Lockstep: whenever no call is in progress, that is after each call has
\* returned or raised, the index holds as many vectors as there are chunk
\* records.
C1_Lockstep == Quiet => Len(index) = Len(documents)

\* C2. Atomic-or-nothing add: when add_documents has raised, the index, the
\* chunk list and document_count are what they were when the call began.
C2_AtomicAdd ==
    \A t \in Threads :
        Returned(t, "add") /\ loc[t].status = "error" => Snapshot = loc[t].pre

\* C3. No torn reads: the positions index.search hands to a search are
\* positions of the chunk list at that moment.
C3_NoTornRead ==
    [][\A t \in Threads :
          pc[t] = "search_index" /\ pc'[t] = "search_loop"
          => \A i \in 1..Len(loc'[t].scores_indices) :
                 loc'[t].scores_indices[i].idx < Len(documents)]_vars

\* What similarity_search returns on a store s for the positions it joined.
JoinOf(s, call) ==
    [i \in 1..Len(call.joined) |->
        [score |-> Dot(s.index[call.joined[i] + 1].vec, call.query_embedding[1].vec)]
            @@ s.documents[call.joined[i] + 1]]

\* C4. clear is atomic for a search: with a search and a clear begun on the same
\* consistent store and no other call about, a search that got positions from
\* the index returns, and returns either what that store holds or the empty
\* list.
C4_ClearAtomic ==
    \A s, c \in Threads :
        ( /\ Returned(s, "search")
          /\ loc[s].scores_indices # <<>>
          /\ loc[c].op = "clear"
          /\ loc[c].pre = loc[s].pre
          /\ Consistent(loc[s].pre) )
        => /\ loc[s].status = "ok"
           /\ \/ loc[s].results = <<>>
              \/ loc[s].results = JoinOf(loc[s].pre, loc[s])

\* The chunk record at every position is the chunk whose text gave the vector
\* at that position.
Bijective ==
    /\ Len(index) = Len(documents)
    /\ \A p \in 1..Len(documents) : documents[p].content = index[p].text

UniqueDocIds ==
    \A p, q \in 1..Len(documents) : p # q => documents[p].doc_id # documents[q].doc_id

\* C5. After two add_documents calls on a new store, however interleaved, the
\* positions pair each chunk with its own vector and no doc_id occurs twice.
C5_Bijection ==
    (calls = 2 /\ \A t \in Threads : Returned(t, "add")) => Bijective /\ UniqueDocIds

\* C6. Dense positions: a batch of n chunks that a well-answered add_documents
\* appends to a consistent store of size s is recorded with vector_index and
\* doc_id s, s + 1, ..., s + n - 1.
C6_DensePositions ==
    \A t \in Threads :
        ( /\ Returned(t, "add")
          /\ loc[t].status = "ok"
          /\ loc[t].fault = "none"
          /\ Consistent(loc[t].pre) )
        => LET s == Len(loc[t].pre.documents)
           IN  \A i \in 0..(Len(loc[t].docs) - 1) :
                   /\ documents[s + i + 1].vector_index = s + i
                   /\ documents[s + i + 1].doc_id = s + i

\* A search that returned a list computed from a non-empty index.
Searched(t) ==
    Returned(t, "search") /\ loc[t].status = "ok" /\ loc[t].query_embedding # <<>>

CandidatePositions(call) ==
    { call.scores_indices[i].idx : i \in 1..Len(call.scores_indices) }

\* C7. Threshold correctness: every result has a score of at least the
\* threshold, equality included; every result is the stored chunk of a
\* candidate position with the inner product of its vector and the query; the
\* candidates are min(k, size) many; and every stored chunk not returned is no
\* candidate of the index search or scores below the threshold.
C7_Threshold ==
    \A t \in Threads :
        Searched(t) =>
            LET call == loc[t]
                q == call.query_embedding[1].vec
            IN  /\ \A i \in 1..Len(call.results) :
                       call.results[i].score >= call.score_threshold
                /\ call.results = JoinOf(Snapshot, call)
                /\ Len(call.scores_indices) = Min(call.k, Len(index))
                /\ \A p \in 0..(Len(documents) - 1) :
                       p \notin Range(call.joined)
                       => \/ p \notin CandidatePositions(call)
                          \/ Dot(index[p + 1].vec, q) < call.score_threshold

\* A search returned a chunk whose score is the threshold, dropped a candidate
\* below it, and left a stored chunk out of the candidates.
C7_Witness ==
    \E t \in Threads :
        /\ Searched(t)
        /\ \E i \in 1..Len(loc[t].results) :
               loc[t].results[i].score = loc[t].score_threshold
        /\ \E i \in 1..Len(loc[t].scores_indices) :
               loc[t].scores_indices[i].score < loc[t].score_threshold
        /\ \E p \in 0..(Len(documents) - 1) : p \notin CandidatePositions(loc[t])

\* C8. Validation first: a similarity_search with an empty query or k <= 0 on
\* a store that holds vectors, the service answering in full, raises, and has
\* not called the embedding service.
C8_ValidationFirst ==
    \A t \in Threads :
        ( /\ Returned(t, "search")
          /\ loc[t].query = "" \/ loc[t].k <= 0
          /\ loc[t].fault = "none"
          /\ Len(loc[t].pre.index) > 0 )
        => loc[t].status = "error" /\ ~loc[t].embedded

\* C9. Degenerate vectors: no call leaves a vector of norm 0 in the index.
C9_NoZeroVector == Quiet => \A p \in 1..Len(index) : NormSq(index[p].vec) > 0

\* C10. Mismatched count: when the service answers a request of add_documents
\* with a number of vectors other than the number of texts, the call raises and
\* neither the index nor the chunk list grows.
C10_MismatchedCount ==
    \A t \in Threads :
        ( /\ Returned(t, "add")
          /\ loc[t].embedded
          /\ loc[t].fault \in {"short", "long"} )
        => /\ loc[t].status = "error"
           /\ index = loc[t].pre.index
           /\ documents = loc[t].pre.documents

(***************************************************************************)
(* Further operations and their properties.                                *)
(***************************************************************************)
\* The store as the constructor and as a complete clear leave it.
EmptyStore == [index |-> <<>>, documents |-> <<>>, document_count |-> 0]

\* C11: a clear that has returned leaves the store as the constructor made it,
\* and a similarity_search that found the store so has returned normally with
\* the empty list, without calling the embedding service, whatever the query,
\* k, threshold and fault of the service.
C11_EmptyCorpus ==
    \A t \in Threads :
        /\ Returned(t, "clear") => Snapshot = EmptyStore
        /\ Returned(t, "search") /\ loc[t].pre = EmptyStore =>
                /\ loc[t].status = "ok"
                /\ loc[t].results = <<>>
                /\ ~loc[t].embedded

\* A search of the empty store has returned with a service that fails, k = 0
\* and the empty query.
C11_Witness ==
    \E t \in Threads :
        /\ Returned(t, "search")
        /\ loc[t].pre = EmptyStore
        /\ loc[t].fault = "error"
        /\ loc[t].k = 0
        /\ loc[t].query = ""
        /\ loc[t].status = "ok"

NonIncreasing(scores) ==
    \A i, j \in 1..Len(scores) : i < j => scores[i] >= scores[j]

\* C12: the list a similarity_search returns is in order of non-increasing
\* score: the candidates of the index search are, and the results are the
\* candidates that meet the threshold, in the candidates' order.
C12_ScoreOrder ==
    \A t \in Threads :
        Returned(t, "search") /\ loc[t].status = "ok" =>
            LET call == loc[t]
                cand == call.scores_indices
                kept == SelectSeq(cand, LAMBDA c : c.score >= call.score_threshold)
            IN  /\ NonIncreasing([i \in 1..Len(cand) |-> cand[i].score])
                /\ NonIncreasing([i \in 1..Len(call.results) |-> call.results[i].score])
                /\ Len(call.results) = Len(kept)
                /\ \A i \in 1..Len(kept) :
                        /\ call.results[i].score = kept[i].score
                        /\ call.joined[i] = kept[i].idx

\* A search has returned two results, the first of the higher score.
C12_Witness ==
    \E t \in Threads :
        /\ Returned(t, "search")
        /\ loc[t].status = "ok"
        /\ Len(loc[t].results) = 2
        /\ loc[t].results[1].score > loc[t].results[2].score

\* C13: from the start of a similarity_search until its caller lets go of the
\* results, the index, the chunk list and the counter are as the call found
\* them, also after the caller has assigned a field of a result; and no stored
\* record ever has a 'score' field.
C13_CopyOnRead ==
    /\ \A t \in Threads : loc[t].op = "search" => Snapshot = loc[t].pre
    /\ \A p \in 1..Len(documents) : "score" \notin DOMAIN documents[p]

\* The caller has assigned the content of a result, which now differs from the
\* stored record it was made of.
C13_Witness ==
    \E t \in Threads :
        /\ pc[t] = "caller"
        /\ \E i \in 1..Len(loc[t].results) :
                /\ loc[t].results[i].content = "x"
                /\ "score" \in DOMAIN loc[t].results[i]
                /\ documents[loc[t].joined[i] + 1].content # "x"

\* C14: the statistics after a clear are zero chunks, zero sources, zero index
\* size and the dimension of the constructor; a clear that follows a clear
\* leaves the statistics that the first one left.
C14_ClearIdempotent ==
    \A t \in Threads :
        Returned(t, "clear") =>
            /\ get_statistics(Snapshot) =
                    [total_documents |-> 0, total_chunks |-> 0, index_size |-> 0,
                     embedding_dimension |-> embedding_dimension, sources |-> {}]
            /\ loc[t].again => get_statistics(Snapshot) = get_statistics(loc[t].pre)

\* A clear has returned whose predecessor was a clear too.
C14_Witness ==
    \E t \in Threads :
        /\ Returned(t, "clear")
        /\ loc[t].again
        /\ get_statistics(Snapshot).total_chunks = 0

\* The positions (from 1) of the chunks of `source` in the list docs.
PositionsOf(docs, source) ==
    { p \in 1..Len(docs) : "source" \in DOMAIN docs[p] /\ docs[p].source = source }

\* The i-th smallest element of the set P of numbers.
Nth(P, i) == CHOOSE p \in P : Cardinality({ q \in P : q < p }) = i - 1

\* C15: get_document_by_source leaves the store alone and returns the stored
\* chunks of the source asked for, each once and in the order of the list: as
\* many records as the list has chunks of that source, the i-th of them the
\* record at the i-th smallest position of such a chunk.
C15_BySource ==
    \A t \in Threads :
        Returned(t, "by_source") =>
            LET call == loc[t]
                P == PositionsOf(call.pre.documents, call.source)
            IN  /\ Snapshot = call.pre
                /\ call.status = "ok"
                /\ Len(call.result) = Cardinality(P)
                /\ \A i \in 1..Len(call.result) :
                        call.result[i] = call.pre.documents[Nth(P, i)]

\* Two chunks of the source asked for, with a chunk of another source stored
\* between them, have been returned.
C15_Witness ==
    \E t \in Threads :
        /\ Returned(t, "by_source")
        /\ Len(loc[t].result) = 2
        /\ PositionsOf(documents, loc[t].source) = {1, 3}
        /\ loc[t].result[1].doc_id < loc[t].result[2].doc_id

\* C16: while no session is inside a button handler, a session whose
\* documents_loaded flag is set finds at least one chunk in the shared store.
C16_LoadedMeansChunks ==
    (\A t \in Threads : run[t].mode = "none") =>
        \A t \in Threads : documents_loaded[t] => Len(documents) >= 1
====
